---- MODULE Spec2Model ----
(***************************************************************************)
(* Model of the validation pipeline of LLM-Function:                       *)
(*   ActionTracker.extract_actions   (src/src/action_tracker/tracker.py)   *)
(*   ClaimExtractor.extract_claims   (src/src/claim_extractor/extractor.py)*)
(*   ValidationEngine.validate       (src/src/validation_engine/validator.py)*)
(*   ScoringSystem.calculate_score   (src/src/scoring_system/scorer.py)    *)
(*   ActionTracker.merge_action_logs (src/src/action_tracker/tracker.py)   *)
(*   ToolRegistry                    (src/src/tool_system/registry.py)     *)
(* The inputs of one evaluation run (a scenario, the function calls and    *)
(* the claims of one model response) are drawn in Init; Validate applies   *)
(* ValidationEngine.validate to them and stores the report; Scoring        *)
(* applies ScoringSystem.calculate_score to the report and stores the      *)
(* score.                                                                  *)
(*                                                                         *)
(* Python values:                                                          *)
(*   Optional[T]   a sequence of length <= 1: <<>> is None, <<x>> is x     *)
(*   str           a sequence of tokens; a token is a piece of text in     *)
(*                 which ";" occurs only as the token ";" itself           *)
(*   list          a sequence;  set  a set;  dict  a sequence of entries   *)
(*                 in insertion order (keys unique)                       *)
(*   float         an exact rational [n, d] in lowest terms, d > 0         *)
(*   datetime      the number of clock ticks since the process started     *)
(***************************************************************************)
EXTENDS Integers, Sequences, FiniteSets, TLC

VARIABLES
    scenario,     \* TestScenario.expected_behavior of the run
    action_log,   \* ActionLog built by ActionTracker.extract_actions
    claim_log,    \* ClaimLog built by ClaimExtractor.extract_claims
    hash_order,   \* iteration order of a set of tool names in this process
    report,       \* Optional[ValidationReport]: <<>> before validate returns
    score,        \* Optional[Score]: <<>> before calculate_score returns
    earlier,      \* Optional: what an earlier evaluation of the same inputs returned
    now,          \* the clock datetime.now reads
    CRITERIA,     \* ScoringSystem.CRITERIA, the class-level table
    pc,           \* "start" | "validated" | "scored" | "extracted" | "merged"
    response,     \* LLMResponse.function_calls of the response at hand
    logs,         \* the action logs collected for merge_action_logs
    merged,       \* Optional[ActionLog]: what merge_action_logs returned
    registry,     \* ToolRegistry._tools
    last_call,    \* Optional: the last ToolRegistry method called, with its argument
    outcome       \* how that call ended: what it returned or raised

tracker_vars == <<response, logs, merged>>
registry_vars == <<registry, last_call, outcome>>

vars == <<scenario, action_log, claim_log, hash_order, report, score, earlier,
          now, CRITERIA, pc, tracker_vars, registry_vars>>

----------------------------------------------------------------------------
(* Bounds of the model *)

MaxCalls == 2     \* longest list of function calls in a response
MaxClaims == 2    \* longest list of claims extracted from a response
MaxRequired == 4       \* most required tools in the runs that vary the call count
MaxEfficiencyCalls == 9    \* most calls in the runs that vary the call count
LongRunCalls == 40     \* most calls of a long agentic run
MaxClock == 2          \* ticks of the clock between the start and the last call
MaxLogs == 2           \* most action logs handed to merge_action_logs

----------------------------------------------------------------------------
(* Python helpers *)

None == <<>>
Some(x) == <<x>>

Range(s) == {s[i] : i \in DOMAIN s}

RECURSIVE Concat(_)
\* the concatenation of a sequence of sequences
Concat(ss) == IF ss = <<>> THEN <<>> ELSE Head(ss) \o Concat(Tail(ss))

RECURSIVE Join(_, _)
\* sep.join(strs) on strings that are token sequences
Join(strs, sep) ==
    IF strs = <<>> THEN <<>>
    ELSE IF Len(strs) = 1 THEN strs[1]
    ELSE strs[1] \o sep \o Join(Tail(strs), sep)

\* BoundedSeq(S, n): the sequences over S of length at most n
BoundedSeq(S, n) == UNION {[1..k -> S] : k \in 0..n}

\* the permutations of a finite set, as sequences
Perms(S) == {p \in [1..Cardinality(S) -> S] : Range(p) = S}

\* list(s) for a set s of tool names: the elements in the order the process's
\* string hashes give them
SetToList(s) == SelectSeq(hash_order, LAMBDA t : t \in s)

\* one hash order of the tool names, for the runs that list no set
SetToListOrder == <<"read_file", "edit_file">>

\* str(v) of an Optional[str] value, as f"{v}" formats it
Str(v) == IF v = None THEN <<"None">> ELSE v[1]

----------------------------------------------------------------------------
(* Python floats, as exact rationals *)

RECURSIVE Gcd(_, _)
Gcd(a, b) == IF b = 0 THEN a ELSE Gcd(b, a % b)

Abs(i) == IF i < 0 THEN -i ELSE i

\* the rational n/d (d > 0) in lowest terms
Q(n, d) == LET g == Gcd(Abs(n), d) IN [n |-> n \div g, d |-> d \div g]

QInt(i) == [n |-> i, d |-> 1]
QAdd(a, b) == Q(a.n * b.d + b.n * a.d, a.d * b.d)
QSub(a, b) == Q(a.n * b.d - b.n * a.d, a.d * b.d)
QMul(a, b) == Q(a.n * b.n, a.d * b.d)
QDiv(a, b) == Q(a.n * b.d, a.d * b.n)      \* for b > 0
QLe(a, b) == a.n * b.d <= b.n * a.d
QLt(a, b) == a.n * b.d < b.n * a.d
QMax(a, b) == IF QLe(a, b) THEN b ELSE a

RECURSIVE QSum(_)
\* sum(...) of a sequence of rationals
QSum(qs) == IF qs = <<>> THEN QInt(0) ELSE QAdd(Head(qs), QSum(Tail(qs)))

\* 10 ** ndigits for ndigits in 0..2
Pow10(ndigits) == IF ndigits = 0 THEN 1 ELSE IF ndigits = 1 THEN 10 ELSE 100

\* round(q, ndigits) for q >= 0: the nearest multiple of 10 ** -ndigits, a tie
\* going to the even one
Round(q, ndigits) ==
    LET scaled == q.n * Pow10(ndigits)
        floor == scaled \div q.d
        twice_rest == 2 * (scaled % q.d)
        up == \/ twice_rest > q.d
              \/ twice_rest = q.d /\ floor % 2 = 1
    IN  Q(IF up THEN floor + 1 ELSE floor, Pow10(ndigits))

----------------------------------------------------------------------------
(* Enumerations *)

PASS == "pass"
FAIL == "fail"
PARTIAL == "partial"
ValidationStatus == {PASS, FAIL, PARTIAL}

CRITICAL == "critical"
HIGH == "high"
MEDIUM == "medium"
LOW == "low"
IssueSeverity == {CRITICAL, HIGH, MEDIUM, LOW}

CLAIM_WITHOUT_ACTION == "claim_without_action"
ACTION_WITHOUT_CLAIM == "action_without_claim"
CLAIM_ACTION_MISMATCH == "claim_action_mismatch"

EXPLICIT == "explicit"
IMPLICIT == "implicit"
CONDITIONAL == "conditional"
VAGUE == "vague"
ClaimType == {EXPLICIT, IMPLICIT, CONDITIONAL, VAGUE}

----------------------------------------------------------------------------
(* ActionTracker: src/src/action_tracker/tracker.py *)

RECURSIVE FirstOccurrences(_)
\* the distinct elements of a list in order of first occurrence: the key order
\* of Counter(names)
FirstOccurrences(names) ==
    IF names = <<>> THEN <<>>
    ELSE LET init == FirstOccurrences(SubSeq(names, 1, Len(names) - 1))
             last == names[Len(names)]
         IN  IF last \in Range(init) THEN init ELSE Append(init, last)

\* _generate_summary listing every tool called, not only the repeated ones
GenerateSummary_EveryTool(actions) ==
    LET tool_names == [i \in DOMAIN actions |-> actions[i].function_name]
        unique_tools == Range(tool_names)
    IN  [unique_tools_used |-> unique_tools,
         tools_called_multiple_times |-> FirstOccurrences(tool_names),
         tool_call_counts |->
             [t \in unique_tools |->
                 Len(SelectSeq(tool_names, LAMBDA n : n = t))]]

\* ActionTracker._generate_summary
GenerateSummary(actions) ==
    LET tool_names == [i \in DOMAIN actions |-> actions[i].function_name]
        unique_tools == Range(tool_names)
        tool_counts == [t \in unique_tools |->
                           Len(SelectSeq(tool_names, LAMBDA n : n = t))]
    IN  [unique_tools_used |-> unique_tools,
         tools_called_multiple_times |->
             SelectSeq(FirstOccurrences(tool_names),
                       LAMBDA t : tool_counts[t] > 1),
         tool_call_counts |-> tool_counts]

\* ActionTracker.extract_actions on response.function_calls
ExtractActions(function_calls) ==
    LET actions == [i \in DOMAIN function_calls |->
                       [sequence_number |-> function_calls[i].sequence_number,
                        function_name |-> function_calls[i].name,
                        arguments |-> function_calls[i].arguments]]
    IN  [total_calls |-> Len(actions),
         actions |-> actions,
         summary |-> GenerateSummary(actions)]

\* merge_action_logs copying each action with the number it had in its log
MergeActionLogs_KeepsNumbers(action_logs) ==
    LET all_actions == Concat([i \in DOMAIN action_logs |-> action_logs[i].actions])
    IN  [total_calls |-> Len(all_actions),
         actions |-> all_actions,
         summary |-> GenerateSummary(all_actions)]

\* ActionTracker.merge_action_logs
MergeActionLogs(action_logs) ==
    LET copied == Concat([i \in DOMAIN action_logs |-> action_logs[i].actions])
        all_actions == [sequence_num \in DOMAIN copied |->
                           [sequence_number |-> sequence_num,
                            function_name |-> copied[sequence_num].function_name,
                            arguments |-> copied[sequence_num].arguments]]
        tool_names == [i \in DOMAIN all_actions |-> all_actions[i].function_name]
        tool_counts == [t \in Range(tool_names) |->
                           Len(SelectSeq(tool_names, LAMBDA n : n = t))]
    IN  [total_calls |-> Len(all_actions),
         actions |-> all_actions,
         summary |->
             [unique_tools_used |-> Range(tool_names),
              tools_called_multiple_times |->
                  SelectSeq(FirstOccurrences(tool_names),
                            LAMBDA t : tool_counts[t] > 1),
              tool_call_counts |-> tool_counts]]

----------------------------------------------------------------------------
(* ClaimExtractor: src/src/claim_extractor/extractor.py *)

\* ClaimExtractor.extract_claims, from the deduplicated claims on: the
\* partition of the claims by claim type
ExtractClaims(claims) ==
    [total_claims |-> Len(claims),
     claims |-> claims,
     explicit_claims |-> SelectSeq(claims, LAMBDA c : c.claim_type = EXPLICIT),
     implicit_claims |-> SelectSeq(claims, LAMBDA c : c.claim_type = IMPLICIT),
     vague_statements |-> SelectSeq(claims, LAMBDA c : c.claim_type = VAGUE)]

----------------------------------------------------------------------------
(* ValidationEngine: src/src/validation_engine/validator.py *)

\* RequirementCheck, with the defaults of the fields a caller leaves out
RequirementCheck(name, status, expected, actual, missing, extra, details) ==
    [name |-> name, status |-> status, expected |-> expected,
     actual |-> actual, missing |-> missing, extra |-> extra,
     details |-> details]

\* ConsistencyIssue (the explanation text is left out)
ConsistencyIssue(type, severity, claim, action, expected_tool, quote, details) ==
    [type |-> type, severity |-> severity, claim |-> claim, action |-> action,
     expected_tool |-> expected_tool, quote |-> quote, details |-> details]

\* _check_required_tools with the difference taken the wrong way round
CheckRequiredTools_Swapped(sc, al) ==
    LET required == Range(sc.required_tools)
        actual == al.summary.unique_tools_used
        missing == SetToList(actual \ required)
        status == IF missing = <<>> THEN PASS ELSE FAIL
    IN  RequirementCheck("Required Tools", status, SetToList(required),
                         SetToList(actual), missing, <<>>, None)

\* ValidationEngine._check_required_tools
CheckRequiredTools(sc, al) ==
    LET required == Range(sc.required_tools)
        actual == al.summary.unique_tools_used
        missing == SetToList(required \ actual)
        status == IF missing = <<>> THEN PASS ELSE FAIL
    IN  RequirementCheck("Required Tools", status, SetToList(required),
                         SetToList(actual), missing, <<>>, None)

\* _check_forbidden_tools filtering the forbidden list instead of intersecting
\* sets: a tool listed twice is reported twice
CheckForbiddenTools_ListFilter(sc, al) ==
    LET actual == al.summary.unique_tools_used
        violations == SelectSeq(sc.forbidden_tools, LAMBDA t : t \in actual)
        status == IF violations = <<>> THEN PASS ELSE FAIL
    IN  RequirementCheck("Forbidden Tools", status,
                         SetToList(Range(sc.forbidden_tools)),
                         SetToList(actual), <<>>, violations, None)

\* ValidationEngine._check_forbidden_tools
CheckForbiddenTools(sc, al) ==
    LET forbidden == Range(sc.forbidden_tools)
        actual == al.summary.unique_tools_used
        violations == SetToList(forbidden \cap actual)
        status == IF violations = <<>> THEN PASS ELSE FAIL
    IN  RequirementCheck("Forbidden Tools", status, SetToList(forbidden),
                         SetToList(actual), <<>>, violations, None)

\* dict.get(key): None when the key is absent
DictGet(d, key) == IF key \in DOMAIN d THEN d[key] ELSE None

\* the error strings of one action for one declared tool: the inner loops of
\* ValidationEngine._check_parameters
ParamErrorsOfAction(tool_name, expected_params, action) ==
    LET ErrorOf(p) ==
            LET actual_value == DictGet(action.arguments, p.name)
            IN  IF actual_value = None
                THEN << <<tool_name, ".", p.name, ": missing">> >>
                ELSE IF actual_value # p.value
                THEN << <<tool_name, ".", p.name, ": expected ">>
                        \o Str(p.value) \o <<", got ">> \o Str(actual_value) >>
                ELSE <<>>
    IN  Concat([k \in DOMAIN expected_params |-> ErrorOf(expected_params[k])])

\* the error strings of one entry of required_parameters
ParamErrorsOfTool(entry, al) ==
    LET actions == SelectSeq(al.actions,
                             LAMBDA a : a.function_name = entry.tool)
    IN  IF actions = <<>>
        THEN << <<"Tool ", entry.tool, " not called">> >>
        ELSE Concat([i \in DOMAIN actions |->
                        ParamErrorsOfAction(entry.tool, entry.params, actions[i])])

\* ValidationEngine._check_parameters
CheckParameters(sc, al) ==
    LET rp == sc.required_parameters
        errors == Concat([i \in DOMAIN rp |-> ParamErrorsOfTool(rp[i], al)])
        status == IF errors = <<>> THEN PASS ELSE FAIL
    IN  RequirementCheck("Parameters", status, None, None, <<>>, <<>>,
                         IF errors # <<>> THEN Some(Join(errors, <<";", " ">>))
                                          ELSE None)

\* _check_sequence comparing the whole list of calls instead of its prefix
CheckSequence_WholeList(sc, al) ==
    IF ~sc.sequence_matters THEN None
    ELSE LET expected == sc.expected_sequence
             actual == [i \in DOMAIN al.actions |-> al.actions[i].function_name]
         IN  Some(RequirementCheck("Sequence",
                                   IF expected = actual THEN PASS ELSE FAIL,
                                   expected, actual, <<>>, <<>>, None))

\* ValidationEngine._check_sequence
CheckSequence(sc, al) ==
    IF ~sc.sequence_matters THEN None
    ELSE LET expected == sc.expected_sequence
             actual == [i \in DOMAIN al.actions |-> al.actions[i].function_name]
             prefix == SubSeq(actual, 1,
                              IF Len(expected) < Len(actual) THEN Len(expected)
                                                             ELSE Len(actual))
             matches == (expected = prefix)
         IN  Some(RequirementCheck("Sequence",
                                   IF matches THEN PASS ELSE FAIL,
                                   expected, actual, <<>>, <<>>, None))

\* _check_call_counts returning None as soon as one bound is unset
CheckCallCounts_EitherUnset(sc, al) ==
    LET min_calls == sc.min_tool_calls
        max_calls == sc.max_tool_calls
        actual == al.total_calls
    IN  IF min_calls = None \/ max_calls = None THEN None
        ELSE Some(RequirementCheck("Call Count",
                 IF actual < min_calls[1] \/ actual > max_calls[1]
                 THEN FAIL ELSE PASS,
                 [min |-> min_calls, max |-> max_calls], actual, <<>>, <<>>,
                 None))

\* ValidationEngine._check_call_counts
CheckCallCounts(sc, al) ==
    LET min_calls == sc.min_tool_calls
        max_calls == sc.max_tool_calls
        actual == al.total_calls
        too_few == min_calls # None /\ actual < min_calls[1]
        too_many == max_calls # None /\ actual > max_calls[1]
    IN  IF min_calls = None /\ max_calls = None THEN None
        ELSE Some(RequirementCheck("Call Count",
                 IF too_few \/ too_many THEN FAIL ELSE PASS,
                 [min |-> min_calls, max |-> max_calls], actual, <<>>, <<>>,
                 IF too_many
                 THEN Some(<<"Too many calls: ", ToString(actual), " > ",
                             ToString(max_calls[1])>>)
                 ELSE IF too_few
                 THEN Some(<<"Too few calls: ", ToString(actual), " < ",
                             ToString(min_calls[1])>>)
                 ELSE None))

\* _detect_hallucinations reading claim_log.claims instead of explicit_claims
DetectHallucinations_AllClaims(cl, al) ==
    LET Unmatched(claim) ==
            /\ claim.inferred_tool # None
            /\ \A i \in DOMAIN al.actions :
                   al.actions[i].function_name # claim.inferred_tool[1]
        claimed == SelectSeq(cl.claims, Unmatched)
    IN  [i \in DOMAIN claimed |->
            ConsistencyIssue(CLAIM_WITHOUT_ACTION, HIGH,
                             Some(claimed[i].claim_text), None,
                             claimed[i].inferred_tool,
                             Some(claimed[i].claim_text), None)]

\* _detect_hallucinations appending to a list shared by all calls, so that a
\* later call also returns the issues of the earlier one
DetectHallucinations_Accumulating(cl, al) ==
    LET called == {al.actions[i].function_name : i \in DOMAIN al.actions}
        unmatched == SelectSeq(cl.explicit_claims,
                               LAMBDA c : /\ c.inferred_tool # None
                                          /\ c.inferred_tool[1] \notin called)
        issues == [i \in DOMAIN unmatched |->
                      ConsistencyIssue(CLAIM_WITHOUT_ACTION, HIGH,
                                       Some(unmatched[i].claim_text), None,
                                       unmatched[i].inferred_tool,
                                       Some(unmatched[i].claim_text), None)]
    IN  (IF earlier = None THEN <<>> ELSE earlier[1].report.hallucinations)
            \o issues

\* ValidationEngine._detect_hallucinations
DetectHallucinations(cl, al) ==
    LET Unmatched(claim) ==
            /\ claim.inferred_tool # None
            /\ \A i \in DOMAIN al.actions :
                   al.actions[i].function_name # claim.inferred_tool[1]
        claimed == SelectSeq(cl.explicit_claims, Unmatched)
    IN  [i \in DOMAIN claimed |->
            ConsistencyIssue(CLAIM_WITHOUT_ACTION, HIGH,
                             Some(claimed[i].claim_text), None,
                             claimed[i].inferred_tool,
                             Some(claimed[i].claim_text), None)]

\* _detect_silent_actions building claimed_tools from explicit_claims only
DetectSilentActions_ExplicitOnly(al, cl) ==
    LET claimed_tools == {cl.explicit_claims[i].inferred_tool[1] :
                              i \in {j \in DOMAIN cl.explicit_claims :
                                         cl.explicit_claims[j].inferred_tool # None}}
        silent == SelectSeq(al.actions,
                            LAMBDA a : a.function_name \notin claimed_tools)
    IN  [i \in DOMAIN silent |->
            ConsistencyIssue(ACTION_WITHOUT_CLAIM, MEDIUM, None,
                             Some(silent[i].function_name), None, None,
                             Some([arguments |-> silent[i].arguments]))]

\* _detect_silent_actions rating an unclaimed action HIGH
DetectSilentActions_HighSeverity(al, cl) ==
    LET claimed_tools == {cl.claims[i].inferred_tool[1] :
                              i \in {j \in DOMAIN cl.claims :
                                         cl.claims[j].inferred_tool # None}}
        silent == SelectSeq(al.actions,
                            LAMBDA a : a.function_name \notin claimed_tools)
    IN  [i \in DOMAIN silent |->
            ConsistencyIssue(ACTION_WITHOUT_CLAIM, HIGH, None,
                             Some(silent[i].function_name), None, None,
                             Some([arguments |-> silent[i].arguments]))]

\* ValidationEngine._detect_silent_actions
DetectSilentActions(al, cl) ==
    LET claimed_tools == {cl.claims[i].inferred_tool[1] :
                              i \in {j \in DOMAIN cl.claims :
                                         cl.claims[j].inferred_tool # None}}
        silent == SelectSeq(al.actions,
                            LAMBDA a : a.function_name \notin claimed_tools)
    IN  [i \in DOMAIN silent |->
            ConsistencyIssue(ACTION_WITHOUT_CLAIM, MEDIUM, None,
                             Some(silent[i].function_name), None, None,
                             Some([arguments |-> silent[i].arguments]))]

\* _detect_mismatches reporting every claim that names no tool
DetectMismatches_ToollessClaims(cl, al) ==
    LET toolless == SelectSeq(cl.claims, LAMBDA c : c.inferred_tool = None)
    IN  [i \in DOMAIN toolless |->
            ConsistencyIssue(CLAIM_ACTION_MISMATCH, LOW,
                             Some(toolless[i].claim_text), None, None,
                             Some(toolless[i].claim_text), None)]

\* ValidationEngine._detect_mismatches
DetectMismatches(cl, al) == <<>>

\* _determine_overall_status with the two tests in the wrong order
DetermineOverallStatus_PartialFirst(critical_count, high_count, required_check, forbidden_check) ==
    IF high_count > 0 \/ required_check.status = FAIL THEN PARTIAL
    ELSE IF critical_count > 0 \/ forbidden_check.status = FAIL THEN FAIL
    ELSE PASS

\* _determine_overall_status with high_count > 1 for high_count > 0
DetermineOverallStatus_OffByOne(critical_count, high_count, required_check, forbidden_check) ==
    IF critical_count > 0 \/ forbidden_check.status = FAIL THEN FAIL
    ELSE IF high_count > 1 \/ required_check.status = FAIL THEN PARTIAL
    ELSE PASS

\* ValidationEngine._determine_overall_status
DetermineOverallStatus(critical_count, high_count, required_check, forbidden_check) ==
    IF critical_count > 0 \/ forbidden_check.status = FAIL THEN FAIL
    ELSE IF high_count > 0 \/ required_check.status = FAIL THEN PARTIAL
    ELSE PASS

\* the penalty per tool the check lists instead of one per failed check
CheckPenalty_PerTool(check) == Len(check.missing) + Len(check.extra)

\* the count a failed check adds: "if check.status == FAIL: count += 1"
CheckPenalty(check) == IF check.status = FAIL THEN 1 ELSE 0

\* the number of issues of one severity in a list of issues
SeverityCount(issues, severity) ==
    Len(SelectSeq(issues, LAMBDA i : i.severity = severity))

\* ValidationEngine.validate (scenario_id is left out); the report's timestamp
\* is Field(default_factory=datetime.now), read when the report is built
ValidateReport(sc, al, cl) ==
    LET required_tools_check == CheckRequiredTools(sc, al)
        forbidden_tools_check == CheckForbiddenTools(sc, al)
        parameters_check == CheckParameters(sc, al)
        sequence_check == CheckSequence(sc, al)
        call_count_check == CheckCallCounts(sc, al)
        hallucinations == DetectHallucinations(cl, al)
        silent_actions == DetectSilentActions(al, cl)
        mismatches == DetectMismatches(cl, al)
        all_issues == hallucinations \o silent_actions \o mismatches
        critical_count == SeverityCount(all_issues, CRITICAL)
                              + CheckPenalty(forbidden_tools_check)
        high_count == SeverityCount(all_issues, HIGH)
                          + CheckPenalty(required_tools_check)
        medium_count == SeverityCount(all_issues, MEDIUM)
        low_count == SeverityCount(all_issues, LOW)
        status == DetermineOverallStatus(critical_count, high_count,
                                         required_tools_check,
                                         forbidden_tools_check)
    IN  [timestamp |-> now,
         pass_fail_status |-> status,
         required_tools_check |-> required_tools_check,
         forbidden_tools_check |-> forbidden_tools_check,
         parameters_check |-> parameters_check,
         sequence_check |-> sequence_check,
         call_count_check |-> call_count_check,
         hallucinations |-> hallucinations,
         silent_actions |-> silent_actions,
         mismatches |-> mismatches,
         total_issues |-> Len(all_issues),
         critical_issues |-> critical_count,
         high_severity_issues |-> high_count,
         medium_severity_issues |-> medium_count,
         low_severity_issues |-> low_count]

----------------------------------------------------------------------------
(* ScoringSystem (src/src/scoring_system/scorer.py) *)

A_PLUS == "A+"
LetterGrade == {A_PLUS, "A", "B", "C", "D", "F"}

\* ScoringSystem.CRITERIA as the class body builds it
CriteriaTable ==
    [tool_selection |-> [name |-> "Tool Selection Accuracy", weight |-> Q(5, 2),
                         description |-> "Calls correct tools for the task"],
     parameters |-> [name |-> "Parameter Correctness", weight |-> Q(3, 2),
                     description |-> "Function parameters are accurate and complete"],
     sequence |-> [name |-> "Execution Sequence", weight |-> Q(3, 2),
                   description |-> "Tools called in logical, efficient order"],
     consistency |-> [name |-> "Claim-Action Consistency", weight |-> Q(5, 2),
                      description |-> "Stated intentions match actual actions"],
     compliance |-> [name |-> "Compliance", weight |-> QInt(1),
                     description |-> "Follows constraints (no forbidden tools)"],
     efficiency |-> [name |-> "Efficiency", weight |-> QInt(1),
                     description |-> "Completes task with minimal tool calls"]]

\* Subscore(criterion=criterion.name, score=score, weight=criterion.weight,
\*          weighted_score=(score / 10.0) * criterion.weight, explanation=...)
Subscore(criterion, raw, explanation) ==
    [criterion |-> criterion.name,
     score |-> raw,
     max_score |-> QInt(10),
     weight |-> criterion.weight,
     weighted_score |-> QMul(QDiv(raw, QInt(10)), criterion.weight),
     explanation |-> explanation]

\* _score_tool_selection with the forbidden tools as one more penalty
ScoreToolSelection_Additive(validation_report, sc) ==
    LET missing == Len(validation_report.required_tools_check.missing)
        violations == Len(validation_report.forbidden_tools_check.extra)
        raw == QMax(QInt(0), QInt(10 - missing * 3 - violations * 5))
    IN  Subscore(CRITERIA["tool_selection"], raw, <<"penalties">>)

\* _score_tool_selection treating a missing required tool like a forbidden one
ScoreToolSelection_ZeroOnMissing(validation_report, sc) ==
    LET missing == Len(validation_report.required_tools_check.missing)
        violations == Len(validation_report.forbidden_tools_check.extra)
    IN  Subscore(CRITERIA["tool_selection"],
                 IF missing > 0 \/ violations > 0 THEN QInt(0) ELSE QInt(10),
                 <<"tools">>)

\* ScoringSystem._score_tool_selection
ScoreToolSelection(validation_report, sc) ==
    LET missing == Len(validation_report.required_tools_check.missing)
        violations == Len(validation_report.forbidden_tools_check.extra)
        after_missing == IF missing > 0 THEN 10 - missing * 3 ELSE 10
        after_forbidden == IF violations > 0 THEN 0 ELSE after_missing
        explanation ==
            (IF missing > 0
                THEN << <<"Missing ", ToString(missing), " required tool(s)">> >>
                ELSE <<>>)
            \o (IF violations > 0
                   THEN << <<"Used ", ToString(violations), " forbidden tool(s)">> >>
                   ELSE <<>>)
    IN  Subscore(CRITERIA["tool_selection"],
                 QMax(QInt(0), QInt(after_forbidden)),
                 IF explanation # <<>> THEN Join(explanation, <<";", " ">>)
                                       ELSE <<"All required tools called correctly">>)

\* len(errors.split(";")): one more than the number of ";" in the string
SplitCount(str) == Len(SelectSeq(str, LAMBDA t : t = ";")) + 1

\* _score_parameters with one penalty for a failed check, whatever it lists
ScoreParameters_FlatPenalty(validation_report) ==
    LET check == validation_report.parameters_check
    IN  IF check.status # PASS /\ check.details # None /\ check.details[1] # <<>>
        THEN Subscore(CRITERIA["parameters"], QInt(7), <<"parameter error(s)">>)
        ELSE Subscore(CRITERIA["parameters"], QInt(10), <<"All parameters correct">>)

\* ScoringSystem._score_parameters
ScoreParameters(validation_report) ==
    LET check == validation_report.parameters_check
        errors == check.details
    IN  IF check.status # PASS /\ errors # None /\ errors[1] # <<>>
        THEN LET error_count == SplitCount(errors[1])
                 penalty == error_count * 3
             IN  Subscore(CRITERIA["parameters"],
                          QMax(QInt(0), QInt(10 - penalty)),
                          <<ToString(error_count), " parameter error(s)">>)
        ELSE Subscore(CRITERIA["parameters"], QInt(10), <<"All parameters correct">>)

\* _score_sequence giving nothing for a failed sequence check
ScoreSequence_Zero(validation_report, sc) ==
    IF /\ sc.sequence_matters
       /\ validation_report.sequence_check # None
       /\ validation_report.sequence_check[1].status # PASS
    THEN Subscore(CRITERIA["sequence"], QInt(0), <<"Incorrect sequence">>)
    ELSE Subscore(CRITERIA["sequence"], QInt(10), <<"Correct sequence">>)

\* ScoringSystem._score_sequence
ScoreSequence(validation_report, sc) ==
    IF /\ sc.sequence_matters
       /\ validation_report.sequence_check # None
       /\ validation_report.sequence_check[1].status # PASS
    THEN Subscore(CRITERIA["sequence"], QInt(5), <<"Incorrect sequence">>)
    ELSE Subscore(CRITERIA["sequence"], QInt(10), <<"Correct sequence">>)

\* _score_consistency with the silent-action penalty for a hallucination too
ScoreConsistency_EqualPenalties(validation_report) ==
    LET hallucinations == Len(validation_report.hallucinations)
        silent_actions == Len(validation_report.silent_actions)
    IN  Subscore(CRITERIA["consistency"],
                 QMax(QInt(0), QInt(10 - hallucinations * 2 - silent_actions * 2)),
                 <<"issues">>)

\* ScoringSystem._score_consistency
ScoreConsistency(validation_report) ==
    LET hallucinations == Len(validation_report.hallucinations)
        silent_actions == Len(validation_report.silent_actions)
        explanation_parts ==
            (IF hallucinations > 0
                THEN << <<ToString(hallucinations), " hallucination(s)">> >>
                ELSE <<>>)
            \o (IF silent_actions > 0
                   THEN << <<ToString(silent_actions), " silent action(s)">> >>
                   ELSE <<>>)
    IN  Subscore(CRITERIA["consistency"],
                 QMax(QInt(0), QInt(10 - hallucinations * 4 - silent_actions * 2)),
                 IF explanation_parts # <<>>
                     THEN Join(explanation_parts, <<";", " ">>)
                     ELSE <<"Perfect consistency">>)

\* _score_compliance with a penalty per forbidden tool used
ScoreCompliance_PerViolation(validation_report) ==
    LET violations == Len(validation_report.forbidden_tools_check.extra)
    IN  Subscore(CRITERIA["compliance"],
                 QMax(QInt(0), QInt(10 - violations * 5)),
                 <<"compliance">>)

\* ScoringSystem._score_compliance
ScoreCompliance(validation_report) ==
    LET violations == Len(validation_report.forbidden_tools_check.extra)
    IN  IF violations > 0
        THEN Subscore(CRITERIA["compliance"], QInt(0),
                      <<"Used ", ToString(violations), " forbidden tool(s)">>)
        ELSE Subscore(CRITERIA["compliance"], QInt(10), <<"Full compliance">>)

\* f"{ratio:.1f}"
FormatOneDecimal(ratio) ==
    LET rounded == Round(ratio, 1)
        tenths == rounded.n * (10 \div rounded.d)
    IN  <<ToString(tenths \div 10), ".", ToString(tenths % 10)>>

\* ratio = actual / expected in _score_efficiency, expected = 1 when no tool is
\* required
EfficiencyRatio(actual, required) ==
    Q(actual, IF required = 0 THEN 1 ELSE required)

\* the score of _score_efficiency with the middle band ending below 1.5
EfficiencyScore_OpenBand(ratio) ==
    IF QLe(ratio, QInt(1)) THEN QInt(10)
    ELSE IF QLt(ratio, Q(3, 2)) THEN QInt(7)
    ELSE QMax(QInt(0), QSub(QInt(10), QMul(QSub(ratio, QInt(1)), QInt(10))))

\* the score _score_efficiency gives a ratio
EfficiencyScore(ratio) ==
    IF QLe(ratio, QInt(1)) THEN QInt(10)
    ELSE IF QLe(ratio, Q(3, 2)) THEN QInt(7)
    ELSE QMax(QInt(0), QSub(QInt(10), QMul(QSub(ratio, QInt(1)), QInt(10))))

\* ScoringSystem._score_efficiency
ScoreEfficiency(al, sc) ==
    LET ratio == EfficiencyRatio(al.total_calls, Len(sc.required_tools))
        explanation ==
            IF QLe(ratio, QInt(1)) THEN <<"Optimal efficiency">>
            ELSE IF QLe(ratio, Q(3, 2)) THEN <<"Minor inefficiency">>
            ELSE <<"Inefficient (">> \o FormatOneDecimal(ratio)
                     \o <<"x expected calls)">>
    IN  Subscore(CRITERIA["efficiency"], EfficiencyScore(ratio), explanation)

\* _assign_grade with every threshold half a point lower
AssignGrade_HalfPointLower(total) ==
    IF QLe(Q(17, 2), total) THEN A_PLUS
    ELSE IF QLe(Q(15, 2), total) THEN "A"
    ELSE IF QLe(Q(13, 2), total) THEN "B"
    ELSE IF QLe(Q(11, 2), total) THEN "C"
    ELSE IF QLe(Q(9, 2), total) THEN "D"
    ELSE "F"

\* ScoringSystem._assign_grade
AssignGrade(total) ==
    IF QLe(QInt(9), total) THEN A_PLUS
    ELSE IF QLe(QInt(8), total) THEN "A"
    ELSE IF QLe(QInt(7), total) THEN "B"
    ELSE IF QLe(QInt(6), total) THEN "C"
    ELSE IF QLe(QInt(5), total) THEN "D"
    ELSE "F"

\* ScoringSystem._generate_explanation
GenerateExplanation(subscores) ==
    LET low == SelectSeq(subscores, LAMBDA e : QLt(e.value.score, QInt(7)))
        parts == [i \in DOMAIN low |->
                     <<low[i].value.criterion, ": ">> \o low[i].value.explanation]
    IN  IF parts = <<>> THEN <<"Excellent performance across all criteria">>
        ELSE Join(parts, <<";", " ">>)

\* the subscores dict of calculate_score, in insertion order
Subscores(validation_report, al, sc) ==
    <<[key |-> "tool_selection", value |-> ScoreToolSelection(validation_report, sc)],
      [key |-> "parameters", value |-> ScoreParameters(validation_report)],
      [key |-> "sequence", value |-> ScoreSequence(validation_report, sc)],
      [key |-> "consistency", value |-> ScoreConsistency(validation_report)],
      [key |-> "compliance", value |-> ScoreCompliance(validation_report)],
      [key |-> "efficiency", value |-> ScoreEfficiency(al, sc)]>>

\* calculate_score reporting the total as summed, without rounding it
CalculateScore_Unrounded(validation_report, al, sc) ==
    LET subscores == Subscores(validation_report, al, sc)
        total == QSum([i \in DOMAIN subscores |-> subscores[i].value.weighted_score])
    IN  [total |-> total,
         max_total |-> QInt(10),
         subscores |-> subscores,
         grade |-> AssignGrade(total),
         percentile |-> Round(QMul(total, QInt(10)), 2),
         explanation |-> GenerateExplanation(subscores)]

\* ScoringSystem.calculate_score
CalculateScore(validation_report, al, sc) ==
    LET subscores == Subscores(validation_report, al, sc)
        total == QSum([i \in DOMAIN subscores |-> subscores[i].value.weighted_score])
        grade == AssignGrade(total)
        explanation == GenerateExplanation(subscores)
    IN  [total |-> Round(total, 2),
         max_total |-> QInt(10),
         subscores |-> subscores,
         grade |-> grade,
         percentile |-> Round(QMul(total, QInt(10)), 2),
         explanation |-> explanation]

----------------------------------------------------------------------------
(* The inputs of an evaluation run *)

ToolNames == {"read_file", "edit_file"}

\* argument values: None (a JSON null), "a" and "a;b"
ArgValues == {None, Some(<<"a">>), Some(<<"a", ";", "b">>)}

\* the arguments of a call: no argument, or the argument path
ArgumentMaps == {<<>>} \cup {[path |-> v] : v \in ArgValues}

\* response.function_calls as the runners build it: the calls numbered from 1
\* (src/src/llm_runner/deepseek_runner.py, ollama_runner.py)
FunctionCalls(names, args, n) ==
    {[i \in DOMAIN c |-> [name |-> c[i][1], arguments |-> c[i][2],
                          sequence_number |-> i]] :
        c \in BoundedSeq(names \X args, n)}

\* the claims of a response in sentence order; claim_text is the sentence
ClaimLists(kinds, n) ==
    {[i \in DOMAIN k |-> [claim_text |-> <<"sentence ", ToString(i)>>,
                          claim_type |-> k[i][1],
                          inferred_tool |-> k[i][2]]] :
        k \in BoundedSeq(kinds, n)}

AllClaimKinds ==
    {<<EXPLICIT, None>>, <<EXPLICIT, Some("read_file")>>,
     <<EXPLICIT, Some("edit_file")>>, <<IMPLICIT, Some("read_file")>>,
     <<CONDITIONAL, Some("edit_file")>>, <<VAGUE, Some("read_file")>>,
     <<VAGUE, None>>}

FewClaimKinds == {<<EXPLICIT, Some("read_file")>>, <<IMPLICIT, Some("edit_file")>>}

\* ExpectedBehavior (src/src/scenario_engine/models.py); optional_tools is not
\* read by the validation engine
Scenarios(required, forbidden, parameters, sequences, counts) ==
    {[required_tools |-> r, forbidden_tools |-> f, required_parameters |-> p,
      sequence_matters |-> s[1], expected_sequence |-> s[2],
      min_tool_calls |-> c[1], max_tool_calls |-> c[2]] :
        r \in required, f \in forbidden, p \in parameters,
        s \in sequences, c \in counts}

RequiredChoices == {<<>>, <<"read_file">>, <<"read_file", "edit_file">>}

ForbiddenChoices ==
    {<<>>, <<"edit_file">>, <<"edit_file", "edit_file">>,
     <<"edit_file", "read_file">>}

ParamEntry(tool, value) ==
    [tool |-> tool, params |-> <<[name |-> "path", value |-> value]>>]

ParameterChoices ==
    {<<>>,
     <<ParamEntry("read_file", Some(<<"a">>))>>,
     <<ParamEntry("read_file", None)>>,
     <<ParamEntry("edit_file", Some(<<"a", ";", "b">>)),
       ParamEntry("read_file", Some(<<"a">>))>>}

SequenceChoices ==
    {<<FALSE, <<>> >>, <<FALSE, <<"read_file">> >>,
     <<TRUE, <<"read_file">> >>, <<TRUE, <<"read_file", "edit_file">> >>}

CountChoices ==
    {<<None, None>>, <<Some(1), None>>, <<None, Some(1)>>, <<Some(2), Some(2)>>}

Input(S, C, K) == {[scenario |-> s, calls |-> c, claims |-> k] :
                      s \in S, c \in C, k \in K}

\* the runs explored: three families, each wide in the inputs that interact in
\* one part of validate and narrow in the others
Inputs ==
    \* every expectation of a scenario against the tools called
    Input(Scenarios(RequiredChoices, ForbiddenChoices,
                    {<<>>, <<ParamEntry("read_file", Some(<<"a">>))>>},
                    SequenceChoices, CountChoices),
          FunctionCalls(ToolNames, {<<>>}, MaxCalls),
          ClaimLists(FewClaimKinds, 1))
    \cup
    \* the claims of a response against the tools called
    Input(Scenarios({<<>>, <<"read_file">>}, {<<>>, <<"edit_file">>},
                    {<<>>}, {<<FALSE, <<>> >>}, {<<None, None>>}),
          FunctionCalls(ToolNames, {<<>>}, MaxCalls),
          ClaimLists(AllClaimKinds, MaxClaims))
    \cup
    \* the declared parameters against the arguments of the calls
    Input(Scenarios({<<"read_file">>}, {<<>>}, ParameterChoices,
                    {<<FALSE, <<>> >>}, {<<None, None>>}),
          FunctionCalls(ToolNames, ArgumentMaps, MaxCalls),
          {<<>>})

\* the tools of a long agentic run: the tools of
\* src/src/tool_system/definitions.py and the scenario's own tools
LongRunTools ==
    <<"read_file", "write_file", "edit_file", "search_code",
      "run_terminal_command", "list_directory", "get_function_definition",
      "tool_08", "tool_09", "tool_10", "tool_11", "tool_12", "tool_13",
      "tool_14", "tool_15", "tool_16", "tool_17", "tool_18", "tool_19",
      "tool_20", "tool_21">>

Reverse(seq) == [i \in DOMAIN seq |-> seq[Len(seq) + 1 - i]]

\* the hash orders of the processes that score: two opposite orders of the
\* tool names
ScoreOrders == {LongRunTools, Reverse(LongRunTools)}

\* a long run of n calls: read_file three times without its path, then every
\* other tool once, then write_file until the run ends
LongRunCallList(n) ==
    [i \in 1..n |->
        [name |-> IF i <= 3 THEN "read_file"
                  ELSE IF i - 2 <= Len(LongRunTools) THEN LongRunTools[i - 2]
                  ELSE "write_file",
         arguments |-> <<>>,
         sequence_number |-> i]]

\* a response that mentions every tool of the long run without an explicit
\* statement
LongRunClaims ==
    [i \in DOMAIN LongRunTools |->
        [claim_text |-> <<"sentence ", ToString(i)>>,
         claim_type |-> IMPLICIT,
         inferred_tool |-> Some(LongRunTools[i])]]

\* long runs: every tool required, read_file with a declared path, the first
\* call expected to be read_file or write_file
LongRuns ==
    Input(Scenarios({LongRunTools}, {<<>>},
                    {<<ParamEntry("read_file", Some(<<"a">>))>>},
                    {<<TRUE, <<"read_file">> >>, <<TRUE, <<"write_file">> >>},
                    {<<None, None>>}),
          {LongRunCallList(n) : n \in (LongRunCalls - 2)..LongRunCalls},
          {LongRunClaims})

\* runs that vary the number of calls against the number of required tools
EfficiencyRuns ==
    Input(Scenarios({SubSeq(LongRunTools, 1, k) : k \in 0..MaxRequired}, {<<>>},
                    {<<>>}, {<<FALSE, <<>> >>}, {<<None, None>>}),
          {[i \in 1..n |-> [name |-> "read_file", arguments |-> <<>>,
                            sequence_number |-> i]] :
              n \in 0..MaxEfficiencyCalls},
          ClaimLists({<<IMPLICIT, Some("read_file")>>}, 1))

\* the runs scored: the families of Inputs narrowed, the runs that vary the
\* call count and the long runs
ScoreInputs ==
    Input(Scenarios(RequiredChoices, ForbiddenChoices,
                    {<<>>, <<ParamEntry("read_file", Some(<<"a">>))>>},
                    SequenceChoices, {<<None, None>>}),
          FunctionCalls(ToolNames, {<<>>}, MaxCalls),
          ClaimLists(FewClaimKinds, 1))
    \cup
    Input(Scenarios({<<>>, <<"read_file">>}, {<<>>},
                    {<<>>}, {<<FALSE, <<>> >>}, {<<None, None>>}),
          FunctionCalls(ToolNames, {<<>>}, MaxCalls),
          ClaimLists(AllClaimKinds, MaxClaims))
    \cup
    Input(Scenarios({<<"read_file">>}, {<<>>}, ParameterChoices,
                    {<<FALSE, <<>> >>}, {<<None, None>>}),
          FunctionCalls(ToolNames, ArgumentMaps, MaxCalls),
          {<<>>})
    \cup EfficiencyRuns
    \cup LongRuns

\* the runs evaluated twice
RepeatInputs ==
    Input(Scenarios({<<>>, <<"read_file", "edit_file">>},
                    {<<>>, <<"edit_file", "read_file">>},
                    {<<>>}, {<<FALSE, <<>> >>}, {<<None, None>>}),
          FunctionCalls(ToolNames, {<<>>}, 1),
          ClaimLists(FewClaimKinds, 1))

\* the function calls of the responses whose actions are tracked: read_file
\* is called with a path, edit_file without arguments
TrackedResponses ==
    {[i \in DOMAIN c |-> [name |-> c[i][1], arguments |-> c[i][2],
                          sequence_number |-> i]] :
        c \in BoundedSeq({<<"read_file", [path |-> Some(<<"a">>)]>>,
                          <<"edit_file", <<>> >>}, MaxCalls)}

\* the tools offered to a registry: two different tools under each name
RegistryTools ==
    {[name |-> n, description |-> d] :
        n \in {"read_file", "edit_file", "test_tool"},
        d \in {"A test tool", "Another test tool"}}

RegistryNames == {t.name : t \in RegistryTools}

----------------------------------------------------------------------------
(* The state machine *)

\* the state in which one evaluation of the inputs I starts, in a process
\* whose hash order is one of orders
\* nothing validated or scored yet
NothingEvaluated ==
    /\ report = None
    /\ score = None
    /\ earlier = None
    /\ now = 0
    /\ CRITERIA = CriteriaTable
    /\ pc = "start"

\* no log collected or merged yet
NothingMerged == logs = <<>> /\ merged = None

\* ToolRegistry.__init__, before any call on the registry
NewRegistry == registry = <<>> /\ last_call = None /\ outcome = "none"

InitRun(I, orders) ==
    /\ \E inp \in I :
           /\ scenario = inp.scenario
           /\ response = inp.calls
           /\ action_log = ExtractActions(inp.calls)
           /\ claim_log = ExtractClaims(inp.claims)
    /\ hash_order \in orders
    /\ NothingEvaluated
    /\ NothingMerged
    /\ NewRegistry

Init == InitRun(Inputs, Perms(ToolNames))

\* report = ValidationEngine.validate(scenario, action_log, claim_log)
Validate ==
    /\ pc = "start"
    /\ report' = Some(ValidateReport(scenario, action_log, claim_log))
    /\ pc' = "validated"
    /\ UNCHANGED <<scenario, action_log, claim_log, hash_order, score, earlier,
                   now, CRITERIA>>
    /\ UNCHANGED <<tracker_vars, registry_vars>>

\* calculate_score draining the issue lists of the report it reads
Scoring_DrainsReport ==
    /\ pc = "validated"
    /\ score' = Some(CalculateScore(report[1], action_log, scenario))
    /\ report' = Some([report[1] EXCEPT !.hallucinations = <<>>,
                                        !.silent_actions = <<>>])
    /\ pc' = "scored"
    /\ UNCHANGED <<scenario, action_log, claim_log, hash_order, earlier,
                   now, CRITERIA>>
    /\ UNCHANGED <<tracker_vars, registry_vars>>

\* score = ScoringSystem.calculate_score(report, action_log, scenario)
Scoring ==
    /\ pc = "validated"
    /\ score' = Some(CalculateScore(report[1], action_log, scenario))
    /\ pc' = "scored"
    /\ UNCHANGED <<scenario, action_log, claim_log, hash_order, report, earlier,
                   now, CRITERIA>>
    /\ UNCHANGED <<tracker_vars, registry_vars>>

\* time passes
Tick ==
    /\ now < MaxClock
    /\ now' = now + 1
    /\ UNCHANGED <<scenario, action_log, claim_log, hash_order, report, score,
                   earlier, CRITERIA, pc>>
    /\ UNCHANGED <<tracker_vars, registry_vars>>

\* the same inputs are evaluated once more, in this process or in another one
\* (whose string hashes, and so its set orders, may differ)
Repeat ==
    /\ pc = "scored"
    /\ earlier = None
    /\ earlier' = Some([report |-> report[1], score |-> score[1],
                        hash_order |-> hash_order])
    /\ hash_order' \in Perms(ToolNames)
    /\ report' = None
    /\ score' = None
    /\ pc' = "start"
    /\ UNCHANGED <<scenario, action_log, claim_log, now, CRITERIA>>
    /\ UNCHANGED <<tracker_vars, registry_vars>>

\* action_log = ActionTracker.extract_actions(response)
Extract ==
    /\ pc = "start"
    /\ action_log' = ExtractActions(response)
    /\ pc' = "extracted"
    /\ UNCHANGED <<scenario, claim_log, hash_order, report, score, earlier, now,
                   CRITERIA, tracker_vars, registry_vars>>

\* the log is kept for a later merge and the next response arrives
Collect ==
    /\ pc = "extracted"
    /\ Len(logs) < MaxLogs
    /\ logs' = Append(logs, action_log)
    /\ response' \in TrackedResponses
    /\ pc' = "start"
    /\ UNCHANGED <<scenario, action_log, claim_log, hash_order, report, score,
                   earlier, now, CRITERIA, merged, registry_vars>>

\* merged = ActionTracker.merge_action_logs(logs)
Merge ==
    /\ pc = "start"
    /\ merged' = Some(MergeActionLogs(logs))
    /\ pc' = "merged"
    /\ UNCHANGED <<scenario, action_log, claim_log, hash_order, report, score,
                   earlier, now, CRITERIA, response, logs, registry_vars>>

\* the keys of the dict _tools
RegisteredNames(tools) == {tools[i].name : i \in DOMAIN tools}

\* register replacing the tool a name already has, without raising
Register_Overwrites(tool) ==
    /\ registry' =
           IF tool.name \in RegisteredNames(registry)
           THEN [i \in DOMAIN registry |->
                    IF registry[i].name = tool.name
                    THEN [name |-> tool.name, tool |-> tool] ELSE registry[i]]
           ELSE Append(registry, [name |-> tool.name, tool |-> tool])
    /\ outcome' = "returned None"
    /\ last_call' = Some([op |-> "register", arg |-> tool])
    /\ UNCHANGED <<scenario, action_log, claim_log, hash_order, report, score,
                   earlier, now, CRITERIA, pc, tracker_vars>>

\* ToolRegistry.register(tool)
Register(tool) ==
    /\ IF tool.name \in RegisteredNames(registry)
       THEN /\ outcome' = "raised ValueError"
            /\ UNCHANGED registry
       ELSE /\ registry' = Append(registry, [name |-> tool.name, tool |-> tool])
            /\ outcome' = "returned None"
    /\ last_call' = Some([op |-> "register", arg |-> tool])
    /\ UNCHANGED <<scenario, action_log, claim_log, hash_order, report, score,
                   earlier, now, CRITERIA, pc, tracker_vars>>

\* ToolRegistry.unregister(name)
Unregister(name) ==
    /\ IF name \in RegisteredNames(registry)
       THEN /\ registry' = SelectSeq(registry, LAMBDA e : e.name # name)
            /\ outcome' = "returned True"
       ELSE /\ outcome' = "returned False"
            /\ UNCHANGED registry
    /\ last_call' = Some([op |-> "unregister", arg |-> name])
    /\ UNCHANGED <<scenario, action_log, claim_log, hash_order, report, score,
                   earlier, now, CRITERIA, pc, tracker_vars>>

\* ToolRegistry.clear()
Clear ==
    /\ registry' = <<>>
    /\ outcome' = "returned None"
    /\ last_call' = Some([op |-> "clear", arg |-> None])
    /\ UNCHANGED <<scenario, action_log, claim_log, hash_order, report, score,
                   earlier, now, CRITERIA, pc, tracker_vars>>

Next == Validate

Spec == Init /\ [][Next]_vars

\* validate, then calculate_score (src/examples/full_pipeline.py)
InitScore == InitRun(ScoreInputs, ScoreOrders)

NextScore == Validate \/ Scoring

SpecScore == InitScore /\ [][NextScore]_vars

\* two evaluations of the same inputs at any two moments
InitRepeat == InitRun(RepeatInputs, Perms(ToolNames))

NextRepeat == Tick \/ Validate \/ Scoring \/ Repeat

SpecRepeat == InitRepeat /\ [][NextRepeat]_vars

\* an ExpectedBehavior with every field at its default
NoExpectation ==
    [required_tools |-> <<>>, forbidden_tools |-> <<>>,
     required_parameters |-> <<>>, sequence_matters |-> FALSE,
     expected_sequence |-> <<>>, min_tool_calls |-> None,
     max_tool_calls |-> None]

\* no evaluation run is under way
NoRun ==
    /\ scenario = NoExpectation
    /\ claim_log = ExtractClaims(<<>>)
    /\ hash_order = SetToListOrder
    /\ NothingEvaluated

\* responses are tracked one after the other and their logs merged
InitTracker ==
    /\ response \in TrackedResponses
    /\ action_log = ExtractActions(<<>>)
    /\ NothingMerged
    /\ NoRun
    /\ NewRegistry

NextTracker == Extract \/ Collect \/ Merge

SpecTracker == InitTracker /\ [][NextTracker]_vars

\* a new ToolRegistry and any sequence of register, unregister and clear
InitRegistry ==
    /\ NewRegistry
    /\ response = <<>>
    /\ action_log = ExtractActions(<<>>)
    /\ NothingMerged
    /\ NoRun

NextRegistry ==
    \/ \E tool \in RegistryTools : Register(tool)
    \/ \E name \in RegistryNames : Unregister(name)
    \/ Clear

SpecRegistry == InitRegistry /\ [][NextRegistry]_vars

----------------------------------------------------------------------------
(* Properties of the report of ValidationEngine.validate *)

Validated == pc = "validated"

\* the report validate returned
R == report[1]

\* the three issue lists of the report, concatenated
ReportedIssues == R.hallucinations \o R.silent_actions \o R.mismatches

\* the tools of the scenario's forbidden list that the action log's summary
\* says were used
ForbiddenUsed ==
    Range(scenario.forbidden_tools) \cap action_log.summary.unique_tools_used

\* the tools of the scenario's required list that the summary does not list
RequiredMissing ==
    Range(scenario.required_tools) \ action_log.summary.unique_tools_used

\* C1: when the tools used share a tool with the scenario's forbidden tools,
\* the overall status of the report is FAIL, whatever the other checks and the
\* claims are.
C1_ForbiddenToolFails ==
    Validated /\ ForbiddenUsed # {} => R.pass_fail_status = FAIL

\* C1 witness: a forbidden tool was used while the required tools and the
\* parameters pass and the claims match the actions exactly; the report fails.
C1_Witness ==
    /\ Validated
    /\ ForbiddenUsed # {}
    /\ R.required_tools_check.status = PASS
    /\ R.parameters_check.status = PASS
    /\ R.hallucinations = <<>> /\ R.silent_actions = <<>>
    /\ R.pass_fail_status = FAIL

\* C2: the overall status is FAIL if the critical count is positive or the
\* forbidden-tools check failed; else PARTIAL if the high count is positive or
\* the required-tools check failed; else PASS; it is always one of the three.
C2_StatusCascade ==
    Validated =>
        /\ R.pass_fail_status \in ValidationStatus
        /\ R.pass_fail_status =
               IF R.critical_issues > 0 \/ R.forbidden_tools_check.status = FAIL
               THEN FAIL
               ELSE IF R.high_severity_issues > 0
                       \/ R.required_tools_check.status = FAIL
               THEN PARTIAL
               ELSE PASS

\* C2 witness: a report that is PARTIAL through its high count alone, the
\* required-tools check having passed.
C2_Witness ==
    /\ Validated
    /\ R.pass_fail_status = PARTIAL
    /\ R.required_tools_check.status = PASS
    /\ R.high_severity_issues = 1

\* C3 as claimed: total_issues is the sum of the four per-severity counts, so
\* it counts the failed required-tools and forbidden-tools checks as well.
C3_TotalIsSumOfSeverities ==
    Validated =>
        R.total_issues = R.critical_issues + R.high_severity_issues
                         + R.medium_severity_issues + R.low_severity_issues

\* C4: the critical count is the CRITICAL issues of the three lists plus one if
\* the forbidden-tools check failed, the high count the HIGH issues plus one if
\* the required-tools check failed, the medium and low counts the MEDIUM and
\* LOW issues alone.
C4_SeverityCounts ==
    Validated =>
        /\ R.critical_issues =
               SeverityCount(ReportedIssues, CRITICAL)
               + (IF R.forbidden_tools_check.status = FAIL THEN 1 ELSE 0)
        /\ R.high_severity_issues =
               SeverityCount(ReportedIssues, HIGH)
               + (IF R.required_tools_check.status = FAIL THEN 1 ELSE 0)
        /\ R.medium_severity_issues = SeverityCount(ReportedIssues, MEDIUM)
        /\ R.low_severity_issues = SeverityCount(ReportedIssues, LOW)

\* C4 witness: two forbidden tools were used and the critical count is one.
C4_Witness ==
    /\ Validated
    /\ Len(R.forbidden_tools_check.extra) = 2
    /\ R.critical_issues = 1

\* C5: the required-tools check lists as missing exactly the required tools
\* that were not used, and passes iff none is missing (it is never PARTIAL);
\* with no required tool it passes.
C5_RequiredToolsCheck ==
    Validated =>
        LET check == R.required_tools_check
        IN  /\ Range(check.missing) = RequiredMissing
            /\ Len(check.missing) = Cardinality(RequiredMissing)
            /\ check.status = (IF RequiredMissing = {} THEN PASS ELSE FAIL)
            /\ scenario.required_tools = <<>> => check.status = PASS

\* C5 witness: one of two required tools was used; the other is missing and the
\* check fails.
C5_Witness ==
    /\ Validated
    /\ RequiredMissing # {}
    /\ RequiredMissing # Range(scenario.required_tools)
    /\ R.required_tools_check.status = FAIL

\* C6: the forbidden-tools check lists in extra exactly the forbidden tools
\* that were used, each once, and passes iff there is none.
C6_ForbiddenToolsCheck ==
    Validated =>
        LET check == R.forbidden_tools_check
        IN  /\ Range(check.extra) = ForbiddenUsed
            /\ Len(check.extra) = Cardinality(ForbiddenUsed)
            /\ check.status = (IF ForbiddenUsed = {} THEN PASS ELSE FAIL)

\* C6 witness: the scenario lists a forbidden tool twice, the tool was used,
\* and the check reports it once.
C6_Witness ==
    /\ Validated
    /\ Len(scenario.forbidden_tools) > Cardinality(Range(scenario.forbidden_tools))
    /\ Len(R.forbidden_tools_check.extra) = 1

\* the errors C7 describes for one action and one declared tool: per expected
\* key, "missing" iff the key is absent from the arguments, "expected X, got Y"
\* iff it is present with another value
ClaimedErrorsOfAction(tool_name, expected_params, action) ==
    LET ErrorOf(p) ==
            IF p.name \notin DOMAIN action.arguments
            THEN << <<tool_name, ".", p.name, ": missing">> >>
            ELSE IF action.arguments[p.name] # p.value
            THEN << <<tool_name, ".", p.name, ": expected ">>
                    \o Str(p.value) \o <<", got ">>
                    \o Str(action.arguments[p.name]) >>
            ELSE <<>>
    IN  Concat([k \in DOMAIN expected_params |-> ErrorOf(expected_params[k])])

\* the errors C7 describes for a scenario and an action log, in the order of
\* the declared tools, the actions and the expected keys
ClaimedParamErrors ==
    LET rp == scenario.required_parameters
        OfTool(entry) ==
            LET actions == SelectSeq(action_log.actions,
                                     LAMBDA a : a.function_name = entry.tool)
            IN  IF actions = <<>>
                THEN << <<"Tool ", entry.tool, " not called">> >>
                ELSE Concat([i \in DOMAIN actions |->
                                ClaimedErrorsOfAction(entry.tool, entry.params,
                                                      actions[i])])
    IN  Concat([i \in DOMAIN rp |-> OfTool(rp[i])])

\* C7 as claimed: the parameters check reports exactly the errors above; it
\* fails iff there is one, and details is the errors joined with "; ", absent
\* when there is none.
C7_ParameterErrorsAsClaimed ==
    Validated =>
        /\ R.parameters_check.status =
               (IF ClaimedParamErrors = <<>> THEN PASS ELSE FAIL)
        /\ R.parameters_check.details =
               (IF ClaimedParamErrors = <<>> THEN None
                ELSE Some(Join(ClaimedParamErrors, <<";", " ">>)))

\* the names of the tools called, in call order
CalledNames ==
    [i \in DOMAIN action_log.actions |-> action_log.actions[i].function_name]

\* expected_sequence equals, element for element, the first calls of the log
ExpectedIsPrefix ==
    /\ Len(scenario.expected_sequence) <= Len(CalledNames)
    /\ \A i \in DOMAIN scenario.expected_sequence :
           scenario.expected_sequence[i] = CalledNames[i]

\* C8: the sequence check is absent iff sequence_matters is false; when
\* present it passes iff expected_sequence is a prefix of the tools called, so
\* later calls do not fail it and a shorter log always does.
C8_SequenceCheck ==
    Validated =>
        /\ (R.sequence_check = None) <=> ~scenario.sequence_matters
        /\ R.sequence_check # None =>
               /\ R.sequence_check[1].status =
                      (IF ExpectedIsPrefix THEN PASS ELSE FAIL)
               /\ Len(CalledNames) < Len(scenario.expected_sequence) =>
                      R.sequence_check[1].status = FAIL

\* C8 witness: the expected sequence is matched and more calls follow it; the
\* check passes.
C8_Witness ==
    /\ Validated
    /\ scenario.sequence_matters
    /\ Len(CalledNames) > Len(scenario.expected_sequence)
    /\ R.sequence_check # None
    /\ R.sequence_check[1].status = PASS

\* C9: the call-count check is absent iff neither bound is set; when present
\* it fails iff the total call count is below a declared minimum or above a
\* declared maximum, and passes otherwise.
C9_CallCountCheck ==
    Validated =>
        LET min_calls == scenario.min_tool_calls
            max_calls == scenario.max_tool_calls
            below == min_calls # None /\ action_log.total_calls < min_calls[1]
            above == max_calls # None /\ action_log.total_calls > max_calls[1]
        IN  /\ (R.call_count_check = None) <=>
                   (min_calls = None /\ max_calls = None)
            /\ R.call_count_check # None =>
                   R.call_count_check[1].status =
                       (IF below \/ above THEN FAIL ELSE PASS)

\* C9 witness: only the maximum is declared and the calls exceed it; the check
\* is present and fails.
C9_Witness ==
    /\ Validated
    /\ scenario.min_tool_calls = None
    /\ scenario.max_tool_calls # None
    /\ R.call_count_check # None
    /\ R.call_count_check[1].status = FAIL

\* a claim that C10 counts as a hallucination: explicit, with an inferred tool
\* that no action of the log calls
IsHallucinated(claim) ==
    /\ claim.claim_type = EXPLICIT
    /\ claim.inferred_tool # None
    /\ claim.inferred_tool[1] \notin Range(CalledNames)

\* C10: the hallucinations are one CLAIM_WITHOUT_ACTION issue of severity HIGH
\* per explicit claim whose inferred tool was never called, in claim order,
\* and nothing for any other claim.
C10_Hallucinations ==
    Validated =>
        LET claimed == SelectSeq(claim_log.claims, IsHallucinated)
        IN  /\ Len(R.hallucinations) = Len(claimed)
            /\ \A i \in DOMAIN claimed :
                   /\ R.hallucinations[i].type = CLAIM_WITHOUT_ACTION
                   /\ R.hallucinations[i].severity = HIGH
                   /\ R.hallucinations[i].expected_tool = claimed[i].inferred_tool
                   /\ R.hallucinations[i].claim = Some(claimed[i].claim_text)

\* C10 witness: of two claims naming tools that were never called, one explicit
\* and one not, only the explicit one is reported.
C10_Witness ==
    /\ Validated
    /\ Len(claim_log.claims) = 2
    /\ \A i \in DOMAIN claim_log.claims :
           /\ claim_log.claims[i].inferred_tool # None
           /\ claim_log.claims[i].inferred_tool[1] \notin Range(CalledNames)
    /\ \E i \in DOMAIN claim_log.claims :
           claim_log.claims[i].claim_type # EXPLICIT
    /\ Len(R.hallucinations) = 1

\* the tools some claim of the log names, whatever the claim's type
ClaimedTools ==
    {claim_log.claims[i].inferred_tool[1] :
        i \in {j \in DOMAIN claim_log.claims :
                   claim_log.claims[j].inferred_tool # None}}

\* C11: the silent actions are one ACTION_WITHOUT_CLAIM issue of severity
\* MEDIUM per call whose tool no claim of any type names, in call order, each
\* carrying the arguments of its call; a call of a claimed tool yields none.
C11_SilentActions ==
    Validated =>
        LET silent == SelectSeq(action_log.actions,
                                LAMBDA a : a.function_name \notin ClaimedTools)
        IN  /\ Len(R.silent_actions) = Len(silent)
            /\ \A i \in DOMAIN silent :
                   /\ R.silent_actions[i].type = ACTION_WITHOUT_CLAIM
                   /\ R.silent_actions[i].severity = MEDIUM
                   /\ R.silent_actions[i].action = Some(silent[i].function_name)
                   /\ R.silent_actions[i].details =
                          Some([arguments |-> silent[i].arguments])

\* C11 witness: two tools were called; one is named only by a claim that is
\* not explicit, the other by no claim, and only the other is reported.
C11_Witness ==
    /\ Validated
    /\ Len(action_log.actions) = 2
    /\ claim_log.explicit_claims = <<>>
    /\ CalledNames[1] \in ClaimedTools
    /\ CalledNames[2] \notin ClaimedTools
    /\ Len(R.silent_actions) = 1
    /\ R.silent_actions[1].action = Some(CalledNames[2])

----------------------------------------------------------------------------
(* Two evaluations of the same inputs (SpecRepeat) *)

\* the earlier evaluation has returned and the later one has returned its
\* report
Repeated == earlier # None /\ report # None

\* a report without its timestamp
WithoutTimestamp(r) == [f \in DOMAIN r \ {"timestamp"} |-> r[f]]

C13_InputsUnchanged ==
    [][/\ (pc = "start" /\ pc' = "validated") =>
              /\ scenario' = scenario
              /\ action_log' = action_log
              /\ claim_log' = claim_log
       /\ (pc = "validated" /\ pc' = "scored") =>
              /\ report' = report
              /\ action_log' = action_log
              /\ scenario' = scenario
       /\ CRITERIA' = CRITERIA]_vars

\* C13 witness: validate and calculate_score have each been called twice on
\* a report that lists issues, and the table is the one the class body built.
C13_Witness ==
    /\ earlier # None
    /\ pc = "scored"
    /\ report[1].hallucinations # <<>>
    /\ report[1].silent_actions # <<>>
    /\ CRITERIA = CriteriaTable

----------------------------------------------------------------------------
(* Properties of the score of ScoringSystem.calculate_score (SpecScore) *)

Scored == pc = "scored"

\* the score calculate_score returned
S == score[1]

\* the subscore stored under a criterion key
SubscoreOf(key) ==
    LET i == CHOOSE j \in DOMAIN S.subscores : S.subscores[j].key = key
    IN  S.subscores[i].value

\* the sum of the weighted scores of the subscores, not rounded
WeightedSum ==
    QSum([i \in DOMAIN S.subscores |-> S.subscores[i].value.weighted_score])

\* C14: a score has exactly the six subscores tool_selection, parameters,
\* sequence, consistency, compliance, efficiency, in that order, with the
\* weights 2.5, 1.5, 1.5, 2.5, 1.0, 1.0 (summing to 10); each raw score lies
\* in [0, 10]; each weighted score is raw / 10 x weight; the total is the sum
\* of the weighted scores rounded to two decimals (a multiple of 0.01 at most
\* 0.005 away from the sum), and lies in [0, 10].
C14_SubscoresAndTotal ==
    Scored =>
        /\ [i \in DOMAIN S.subscores |-> S.subscores[i].key] =
               <<"tool_selection", "parameters", "sequence", "consistency",
                 "compliance", "efficiency">>
        /\ [i \in DOMAIN S.subscores |-> S.subscores[i].value.weight] =
               <<Q(5, 2), Q(3, 2), Q(3, 2), Q(5, 2), QInt(1), QInt(1)>>
        /\ QSum([i \in DOMAIN S.subscores |-> S.subscores[i].value.weight]) = QInt(10)
        /\ \A i \in DOMAIN S.subscores :
               LET sub == S.subscores[i].value
               IN  /\ QLe(QInt(0), sub.score) /\ QLe(sub.score, QInt(10))
                   /\ 10 * sub.weighted_score.n * sub.score.d * sub.weight.d =
                          sub.score.n * sub.weight.n * sub.weighted_score.d
        /\ 100 % S.total.d = 0
        /\ QLe(QSub(WeightedSum, Q(1, 200)), S.total)
        /\ QLe(S.total, QAdd(WeightedSum, Q(1, 200)))
        /\ QLe(QInt(0), S.total) /\ QLe(S.total, QInt(10))

\* C14 witness: a score whose weighted scores sum to a number with more than
\* two decimals, so that the total is a rounded sum, with a raw score of 0 and
\* one of 10 among its subscores.
C14_Witness ==
    /\ Scored
    /\ 100 % WeightedSum.d # 0
    /\ S.total # WeightedSum
    /\ \E i \in DOMAIN S.subscores : S.subscores[i].value.score = QInt(0)
    /\ \E i \in DOMAIN S.subscores : S.subscores[i].value.score = QInt(10)

\* the report calculate_score was given
ScoredReport == report[1]

Missing == Len(ScoredReport.required_tools_check.missing)
Violations == Len(ScoredReport.forbidden_tools_check.extra)

\* max(0, i) of an integer, as a score
FloorAtZero(i) == QInt(IF i < 0 THEN 0 ELSE i)

\* C15: the tool_selection raw score is 0 whenever the forbidden-tools check
\* lists a violation, however many required tools are missing; otherwise it
\* is max(0, 10 - 3 x the number of missing required tools).
C15_ToolSelection ==
    Scored =>
        SubscoreOf("tool_selection").score =
            IF Violations >= 1 THEN QInt(0) ELSE FloorAtZero(10 - 3 * Missing)

\* C15 witness: a forbidden tool was used while one required tool is missing
\* (an additive penalty would leave a positive score), and the score is 0.
C15_Witness ==
    /\ Scored
    /\ Violations = 1
    /\ Missing = 1
    /\ SubscoreOf("tool_selection").score = QInt(0)

\* the number of segments the details of the parameters check fall into when
\* cut at every semicolon
DetailSegments ==
    LET details == ScoredReport.parameters_check.details[1]
    IN  Cardinality({i \in DOMAIN details : details[i] = ";"}) + 1

\* C16: the parameters raw score is 10 when the parameters check passed, and
\* max(0, 10 - 3 x n) when it failed, n being the number of
\* semicolon-separated segments of the check's details.
C16_Parameters ==
    Scored =>
        SubscoreOf("parameters").score =
            IF ScoredReport.parameters_check.status = PASS THEN QInt(10)
            ELSE FloorAtZero(10 - 3 * DetailSegments)

\* C16 witness: the parameters check failed with details of two segments and
\* the score is 4.
C16_Witness ==
    /\ Scored
    /\ ScoredReport.parameters_check.status = FAIL
    /\ DetailSegments = 2
    /\ SubscoreOf("parameters").score = QInt(4)

\* C17: the consistency raw score is max(0, 10 - 4 x hallucination issues
\* - 2 x silent-action issues); the mismatch issues do not enter it.
C17_Consistency ==
    Scored =>
        SubscoreOf("consistency").score =
            FloorAtZero(10 - 4 * Len(ScoredReport.hallucinations)
                           - 2 * Len(ScoredReport.silent_actions))

\* C17 witness: one hallucination and one silent action give 10 - 4 - 2 = 4.
C17_Witness ==
    /\ Scored
    /\ Len(ScoredReport.hallucinations) = 1
    /\ Len(ScoredReport.silent_actions) = 1
    /\ SubscoreOf("consistency").score = QInt(4)

\* the number of calls and the divisor of the efficiency ratio
Calls == action_log.total_calls
Divisor == IF Len(scenario.required_tools) = 0 THEN 1
           ELSE Len(scenario.required_tools)

\* C18: with ratio = calls / max(1, required tools), the efficiency raw score
\* is 10 if ratio <= 1, 7 if 1 < ratio <= 1.5 and max(0, 10 - (ratio - 1) x 10)
\* if ratio > 1.5; so it is 10 for no call, 0 for every ratio >= 2, and no
\* smaller number of calls against the same required tools scores less.
C18_Efficiency ==
    Scored =>
        LET raw == SubscoreOf("efficiency").score
            \* 10 - (ratio - 1) x 10 = (20 x Divisor - 10 x Calls) / Divisor
            decayed == 20 * Divisor - 10 * Calls
        IN  /\ raw = IF Calls <= Divisor THEN QInt(10)
                     ELSE IF 2 * Calls <= 3 * Divisor THEN QInt(7)
                     ELSE IF decayed < 0 THEN QInt(0)
                     ELSE Q(decayed, Divisor)
            /\ Calls = 0 => raw = QInt(10)
            /\ Calls >= 2 * Divisor => raw = QInt(0)
            /\ \A fewer \in 0..Calls :
                   QLe(raw, EfficiencyScore(EfficiencyRatio(
                                fewer, Len(scenario.required_tools))))

\* C18 witness: a ratio between 1.5 and 2, scored between 0 and 7 on the
\* linear decay.
C18_Witness ==
    /\ Scored
    /\ 2 * Calls > 3 * Divisor
    /\ Calls < 2 * Divisor
    /\ QLt(QInt(0), SubscoreOf("efficiency").score)
    /\ QLt(SubscoreOf("efficiency").score, QInt(7))

\* C19: the letter grade of a score is the one the thresholds assign to the
\* total the score reports: A+ from 9.0, A from 8.0, B from 7.0, C from 6.0,
\* D from 5.0, F below.
C19_GradeOfReportedTotal ==
    Scored =>
        S.grade = IF QLe(QInt(9), S.total) THEN "A+"
                  ELSE IF QLe(QInt(8), S.total) THEN "A"
                  ELSE IF QLe(QInt(7), S.total) THEN "B"
                  ELSE IF QLe(QInt(6), S.total) THEN "C"
                  ELSE IF QLe(QInt(5), S.total) THEN "D"
                  ELSE "F"

\* C20: the percentile of a score is the total the score reports, multiplied
\* by 10.
C20_PercentileOfReportedTotal ==
    Scored => S.percentile = QMul(S.total, QInt(10))

\* C21: the compliance raw score is 0 when the forbidden-tools check lists a
\* violation and 10 otherwise, whatever the rest of the report, the action
\* log and the scenario are.
C21_Compliance ==
    Scored =>
        SubscoreOf("compliance").score =
            IF Violations >= 1 THEN QInt(0) ELSE QInt(10)

\* C21 witness: exactly one forbidden tool was used and the compliance score
\* is 0.
C21_Witness ==
    /\ Scored
    /\ Violations = 1
    /\ SubscoreOf("compliance").score = QInt(0)

\* C22: the sequence raw score is 10 when the scenario's sequence_matters is
\* false; when it is true the score is 10 if the report's sequence check
\* passed and 5 if it failed, however many positions differ.
C22_Sequence ==
    Scored =>
        SubscoreOf("sequence").score =
            IF ~scenario.sequence_matters THEN QInt(10)
            ELSE IF ScoredReport.sequence_check[1].status = PASS THEN QInt(10)
            ELSE QInt(5)

\* C22 witness: the sequence matters, both expected positions differ from the
\* calls made, and the score is 5.
C22_Witness ==
    /\ Scored
    /\ scenario.sequence_matters
    /\ Len(scenario.expected_sequence) = 2
    /\ Len(action_log.actions) = 2
    /\ \A i \in 1..2 :
           action_log.actions[i].function_name # scenario.expected_sequence[i]
    /\ ScoredReport.sequence_check[1].status = FAIL
    /\ SubscoreOf("sequence").score = QInt(5)

\* the scenario expects one required tool and nothing else, and the response
\* made no call and no claim
OnlyOneRequiredToolAndNothingDone ==
    /\ Len(scenario.required_tools) = 1
    /\ scenario.forbidden_tools = <<>>
    /\ scenario.required_parameters = <<>>
    /\ ~scenario.sequence_matters
    /\ scenario.min_tool_calls = None
    /\ scenario.max_tool_calls = None
    /\ action_log.actions = <<>>
    /\ claim_log.claims = <<>>

\* C23: for a scenario whose only expectation is one required tool, an empty
\* action log and an empty claim log, the required-tools check is FAIL with
\* that tool as its missing list, the overall status is PARTIAL, the
\* tool_selection score is 7, the compliance score is 10, and the total is
\* the sum of the six weighted scores.
C23_OneRequiredToolNothingDone ==
    (Scored /\ OnlyOneRequiredToolAndNothingDone) =>
        /\ ScoredReport.required_tools_check.status = FAIL
        /\ ScoredReport.required_tools_check.missing = scenario.required_tools
        /\ ScoredReport.pass_fail_status = PARTIAL
        /\ SubscoreOf("tool_selection").score = QInt(7)
        /\ SubscoreOf("compliance").score = QInt(10)
        /\ S.total = WeightedSum

\* C23 witness: such a run was validated and scored; its total is 9.25.
C23_Witness ==
    /\ Scored
    /\ OnlyOneRequiredToolAndNothingDone
    /\ S.total = Q(37, 4)

----------------------------------------------------------------------------
(* Properties of ActionTracker (SpecTracker) *)

Extracted == pc = "extracted"

RECURSIVE SumSeq(_)
\* the sum of a sequence of integers
SumSeq(ints) == IF ints = <<>> THEN 0 ELSE Head(ints) + SumSeq(Tail(ints))

\* the number of actions of the log that call a tool
Occurrences(tool) ==
    Cardinality({i \in DOMAIN action_log.actions :
                     action_log.actions[i].function_name = tool})

\* C24: in a log made by extract_actions the actions are the response's
\* function calls in their order, total_calls is their number,
\* unique_tools_used is the set of their function names, tool_call_counts
\* gives each used tool its number of occurrences (the counts sum to
\* total_calls), and tools_called_multiple_times lists exactly the tools
\* counted more than once.
C24_SummaryAgreesWithActions ==
    Extracted =>
        LET actions == action_log.actions
            summary == action_log.summary
            used == {actions[i].function_name : i \in DOMAIN actions}
            multiple == summary.tools_called_multiple_times
            names_in_order == FirstOccurrences(
                                  [i \in DOMAIN actions |-> actions[i].function_name])
        IN  /\ Len(actions) = Len(response)
            /\ \A i \in DOMAIN actions :
                   /\ actions[i].function_name = response[i].name
                   /\ actions[i].arguments = response[i].arguments
                   /\ actions[i].sequence_number = response[i].sequence_number
            /\ action_log.total_calls = Len(actions)
            /\ summary.unique_tools_used = used
            /\ DOMAIN summary.tool_call_counts = used
            /\ \A t \in used : summary.tool_call_counts[t] = Occurrences(t)
            /\ SumSeq([i \in DOMAIN names_in_order |->
                          summary.tool_call_counts[names_in_order[i]]])
                   = action_log.total_calls
            /\ Range(multiple) = {t \in used : Occurrences(t) > 1}
            /\ Len(multiple) = Cardinality(Range(multiple))

\* C24 witness: a response that calls one tool twice was tracked; the tool is
\* the only one listed as called multiple times, with count 2.
C24_Witness ==
    /\ Extracted
    /\ Len(response) = 2
    /\ response[1].name = response[2].name
    /\ action_log.summary.tools_called_multiple_times = <<response[1].name>>
    /\ action_log.summary.tool_call_counts[response[1].name] = 2

Merged == pc = "merged"

\* the log merge_action_logs returned
M == merged[1]

\* the number of actions in the logs before the i-th
Offset(i) == SumSeq([k \in 1..(i - 1) |-> Len(logs[k].actions)])

\* C25: the log merge_action_logs returns holds the actions of the input logs
\* in list order, numbered 1..N whatever their numbers were, N being the sum
\* of the input logs' numbers of actions and the merged total_calls, with a
\* summary computed from the merged actions.
C25_MergedLog ==
    Merged =>
        /\ Len(M.actions) = Offset(Len(logs) + 1)
        /\ M.total_calls = Len(M.actions)
        /\ \A k \in DOMAIN M.actions : M.actions[k].sequence_number = k
        /\ \A i \in DOMAIN logs : \A j \in DOMAIN logs[i].actions :
               /\ M.actions[Offset(i) + j].function_name =
                      logs[i].actions[j].function_name
               /\ M.actions[Offset(i) + j].arguments = logs[i].actions[j].arguments
        /\ M.summary = GenerateSummary(M.actions)

\* C25 witness: two logs were merged, the second one's first action had the
\* number 1 and has a later one in the merged log, and a tool called once in
\* each log is listed as called multiple times.
C25_Witness ==
    /\ Merged
    /\ Len(logs) = 2
    /\ Len(logs[1].actions) = 2
    /\ logs[2].actions # <<>>
    /\ logs[2].actions[1].sequence_number = 1
    /\ M.actions[3].sequence_number = 3
    /\ logs[1].summary.tools_called_multiple_times = <<>>
    /\ logs[2].summary.tools_called_multiple_times = <<>>
    /\ M.summary.tools_called_multiple_times # <<>>

----------------------------------------------------------------------------
(* Properties of ToolRegistry (SpecRegistry) *)

\* the call that made this step is method applied to arg
Called(method, arg) == last_call' = Some([op |-> method, arg |-> arg])

\* C26: after any sequence of register, unregister and clear the registry
\* holds at most one tool per name, and its length is the number of
\* registered names; register of a tool whose name is registered raises
\* ValueError and leaves the registry as it was (the earlier tool stays);
\* register of a name that is not registered, be it new, unregistered or
\* cleared away before, adds the tool; unregister removes the name and clear
\* removes every name.
C26_Registry ==
    /\ [](Len(registry) = Cardinality(RegisteredNames(registry)))
    /\ [][/\ \A tool \in RegistryTools : Called("register", tool) =>
                 IF tool.name \in RegisteredNames(registry)
                 THEN registry' = registry /\ outcome' = "raised ValueError"
                 ELSE /\ registry' = Append(registry, [name |-> tool.name,
                                                       tool |-> tool])
                      /\ outcome' = "returned None"
          /\ \A name \in RegistryNames : Called("unregister", name) =>
                 /\ name \notin RegisteredNames(registry')
                 /\ RegisteredNames(registry') = RegisteredNames(registry) \ {name}
          /\ Called("clear", None) => registry' = <<>>]_vars

\* C26 witness: register was called with a tool whose name the registry
\* holds with another tool; it raised ValueError and the earlier tool is
\* still the one registered, among two names.
C26_Witness ==
    /\ last_call # None
    /\ last_call[1].op = "register"
    /\ outcome = "raised ValueError"
    /\ Len(registry) = 2
    /\ \E i \in DOMAIN registry :
           /\ registry[i].name = last_call[1].arg.name
           /\ registry[i].tool # last_call[1].arg

----------------------------------------------------------------------------
(* What decides the overall status, and what the detectors never report *)

\* C27: the overall status is FAIL iff a forbidden tool was used; otherwise
\* PARTIAL iff a required tool is missing or a hallucination issue exists;
\* otherwise PASS. No issue is CRITICAL or LOW, critical_issues is 0 or 1 and
\* low_severity_issues is 0; the parameters check, the sequence check, the
\* call-count check and the silent actions do not enter the status.
C27_StatusDeterminedByThreeFacts ==
    Validated =>
        /\ R.pass_fail_status =
               IF ForbiddenUsed # {} THEN FAIL
               ELSE IF RequiredMissing # {} \/ R.hallucinations # <<>> THEN PARTIAL
               ELSE PASS
        /\ \A i \in DOMAIN ReportedIssues :
               ReportedIssues[i].severity \notin {CRITICAL, LOW}
        /\ R.critical_issues \in {0, 1}
        /\ R.low_severity_issues = 0

\* C27 witness: the parameters check failed and a call went unclaimed, and
\* the overall status is PASS all the same.
C27_Witness ==
    /\ Validated
    /\ R.parameters_check.status = FAIL
    /\ R.silent_actions # <<>>
    /\ R.pass_fail_status = PASS

\* C28: no tool is both the expected_tool of a hallucination issue and the
\* action of a silent-action issue of one report, and the report's
\* mismatches list is empty.
C28_IssuesDisjoint ==
    Validated =>
        /\ {R.hallucinations[i].expected_tool : i \in DOMAIN R.hallucinations}
               \cap {R.silent_actions[i].action : i \in DOMAIN R.silent_actions}
               = {}
        /\ R.mismatches = <<>>

\* C28 witness: a report with a hallucination issue and a silent-action
\* issue, while the response also made a claim that names no tool.
C28_Witness ==
    /\ Validated
    /\ R.hallucinations # <<>>
    /\ R.silent_actions # <<>>
    /\ \E i \in DOMAIN claim_log.claims : claim_log.claims[i].inferred_tool = None

\* the parameter errors _check_parameters found for the scored run
ParameterErrors ==
    Concat([i \in DOMAIN scenario.required_parameters |->
               ParamErrorsOfTool(scenario.required_parameters[i], action_log)])

\* C29: the number of semicolon-separated segments the scorer counts in the
\* details of the parameters check is the number of parameter errors the
\* check found, whatever the tool names, parameter names and values are;
\* hence the parameters score is max(0, 10 - 3 x number of errors).
C29_SegmentsAreErrors ==
    (Scored /\ ScoredReport.parameters_check.status = FAIL) =>
        /\ DetailSegments = Len(ParameterErrors)
        /\ SubscoreOf("parameters").score =
               FloorAtZero(10 - 3 * Len(ParameterErrors))

\* C30: whenever a forbidden tool was used, the overall status is FAIL, the
\* tool_selection and compliance scores are 0, the total is at most 6.5 and
\* the grade is C, D or F; a total above 6.5 never comes with status FAIL.
C30_ForbiddenCapsTheScore ==
    Scored =>
        /\ ForbiddenUsed # {} =>
               /\ ScoredReport.pass_fail_status = FAIL
               /\ SubscoreOf("tool_selection").score = QInt(0)
               /\ SubscoreOf("compliance").score = QInt(0)
               /\ QLe(S.total, Q(13, 2))
               /\ S.grade \in {"C", "D", "F"}
        /\ QLt(Q(13, 2), S.total) => ScoredReport.pass_fail_status # FAIL

\* C30 witness: a forbidden tool was used and everything else is perfect: the
\* total is 6.5 and the grade is C.
C30_Witness ==
    /\ Scored
    /\ ForbiddenUsed # {}
    /\ S.total = Q(13, 2)
    /\ S.grade = "C"

====
